---- MODULE Spec2Model ----
(***************************************************************************)
(* RunnableParallel (core/parallel.js): construction, _call (invoke) and   *)
(* _stream, with the children modelled as asynchronous operations that     *)
(* settle in any order.                                                    *)
(***************************************************************************)
EXTENDS Integers, Sequences, FiniteSets, TLC

\* ------------------------------------------------------------------ bounds
MaxBranches == 3

\* Inputs of one batch call, and children of the group it is called on.
MaxBatch == 2

MaxBatchBranches == 2

\* Largest options.maxRetries given to a RetryManager.
MaxRetriesOption == 2

\* Largest number of lifecycle handlers registered in a config.
MaxHandlers == 2

\* Largest recursionLimit an ExecutionConfig is created with.
MaxLimit == 3

\* Largest number of ExecutionConfig objects alive at once.
MaxConfigs == 4

\* Largest number of children of a Sequence.
MaxSteps == 3

\* Longest text given to a TokenCounter.
MaxTextLen == 21

\* Property names, in the order in which an options object lists them.
NamePool == <<"b", "a", "d", "c", "e">>

Names == {NamePool[i] : i \in 1..MaxBranches}

Inputs == {"x", "y"}

\* ------------------------------------------------------- values and maps
\* A JS object used as a map is a sequence of <<key, value>> pairs in own
\* property order.
Keys(m) == [i \in 1..Len(m) |-> m[i][1]]

KeySet(m) == {m[i][1] : i \in 1..Len(m)}

HasKey(m, k) == k \in KeySet(m)

Get(m, k) == m[CHOOSE i \in 1..Len(m) : m[i][1] = k][2]

\* obj[k] = v : replaces in place when k is present, appends otherwise.
SetKey(m, k, v) ==
    IF HasKey(m, k)
    THEN [i \in 1..Len(m) |-> IF m[i][1] = k THEN <<k, v>> ELSE m[i]]
    ELSE Append(m, <<k, v>>)

\* delete obj[k]
DeleteKeyKeep(ks, k) == ks

DeleteKey(ks, k) == SelectSeq(ks, LAMBDA n : n # k)

SeqSet(s) == {s[i] : i \in 1..Len(s)}

\* ------------------------------------------------- constructor arguments
\* What a property of the options object can hold.
\*   "undefined", "null"  : missing value
\*   "plain"              : an object without an invoke method
\*   "duck"               : an object with invoke only, whose invoke tags
\*                          the config it is given (config.metadata[name])
\*   "task"               : a Runnable (invoke, stream, batch, pipe), such
\*                          as LabelRunnable
ValueKinds == {"undefined", "null", "plain", "duck", "task"}

Capabilities(kind) ==
    CASE kind = "task" -> {"invoke", "stream", "batch", "pipe"}
      [] kind = "duck" -> {"invoke"}
      [] OTHER -> {}

TaskCapabilities == {"invoke", "stream", "batch", "pipe"}

\* Order preserving sub-sequences of the first MaxBranches pool names.
RECURSIVE SubSeqs(_)
SubSeqs(i) ==
    IF i > MaxBranches THEN {<<>>}
    ELSE LET rest == SubSeqs(i + 1)
         IN  rest \cup {<<NamePool[i]>> \o r : r \in rest}

RECURSIVE PropsOver(_)
PropsOver(ks) ==
    IF ks = <<>> THEN {<<>>}
    ELSE {<< <<Head(ks), v>> >> \o r : v \in ValueKinds, r \in PropsOver(Tail(ks))}

ObjectOptions ==
    UNION {{[type |-> "object", props |-> p] : p \in PropsOver(ks)} : ks \in SubSeqs(1)}

NonMappingTypes == {"array", "string", "number", "function", "null"}

\* "undefined" is the omitted argument, replaced by the default {}.
Options ==
    ObjectOptions
      \cup {[type |-> t, props |-> <<>>] : t \in NonMappingTypes \cup {"undefined"}}

\* typeof options !== 'object' || Array.isArray(options)     (line 25)
\* typeof null is 'object'.
RejectsOptions(o) == o.type \in {"string", "number", "function", "array"}

\* !runnable || typeof runnable.invoke !== 'function'        (line 34)
NotRunnableFalsyOnly(kind) == kind \in {"undefined", "null"}

NotRunnable(kind) ==
    kind \in {"undefined", "null"} \/ "invoke" \notin Capabilities(kind)

\* First property, in Object.entries order, that fails the validation.
FirstInvalid(props) ==
    LET bad == {i \in 1..Len(props) : NotRunnable(props[i][2])}
    IN  IF bad = {} THEN 0 ELSE CHOOSE i \in bad : \A j \in bad : i <= j

\* Errors the constructor throws.  The two `throw new Error(...)` are the
\* configuration errors; Object.keys(null) throws a TypeError.
RequiresObjectError ==
    [type |-> "Error", message |-> "requires an object of named Runnables", name |-> ""]

MustBeRunnableError(n) ==
    [type |-> "Error", message |-> "must be a Runnable with an invoke() method", name |-> n]

NullKeysError ==
    [type |-> "TypeError", message |-> "Cannot convert undefined or null to object", name |-> ""]

NoError == [type |-> "none", message |-> "", name |-> ""]

IsConfigurationError(e) ==
    e.type = "Error"
      /\ e.message \in {RequiresObjectError.message, MustBeRunnableError("").message}

\* --------------------------------------------------- children and config
\* The config object _call / _stream are given.
CallConfig == <<"config">>

\* The config _call and _stream hand to the child `name`.
ChildConfigDerived(cfg, name) == Append(cfg, name)

ChildConfig(cfg, name) == cfg

\* What a child returns for an input, and the error it throws.
ChildResult(name, x) == <<"result", name, x>>

ChildError(name) == [content |-> <<"failure", name>>, node |-> "none"]

\* `await promise` in _call re-throws the child's rejection.
RethrowAnnotated(err, name) == [err EXCEPT !.node = name]

Rethrow(err, name) == err

NoChildError == [content |-> <<>>, node |-> "none"]

\* No name: the value of raceWinner while a race is undecided.
None == ""

VARIABLES
    options,        \* the argument given to the constructor
    ctor,           \* "none" | "ok" | "threw"
    ctorError,      \* the error the constructor threw
    runnables,      \* this.runnables : sequence of <<name, kind>>
    runnableNames,  \* this.runnableNames
    op,             \* "none" | "call" | "stream"
    input,          \* the input of the running operation
    calls,          \* child.invoke calls made, in order
    cfgMeta,        \* <<config, name>> : name has tagged that config
    settled,        \* <<name, ok>> of the settled children, in time order
    promises,       \* keys of the local `promises` object
    callPc,         \* "idle" | "awaiting" | "returned" | "threw"
    callIdx,        \* position of the second loop of _call
    callResults,    \* the local `results` of _call
    callError,      \* the error _call threw
    genPc,          \* "idle" | "racing" | "yielded" | "done" | "threw"
    heap,           \* the objects _stream allocates, by address
    resultsRef,     \* address of the local `results` of _stream
    completed,      \* the local `completed`
    raceWinner,     \* name the pending Promise.race resolves with
    completedName,  \* the local `completedName`
    yielded,        \* addresses of the objects yielded so far
    causes,         \* completedName at each yield
    streamError     \* the error _stream threw

callVars == <<callPc, callIdx, callResults, callError>>

ctorVars == <<options, ctor, ctorError, runnables, runnableNames>>

streamVars == <<genPc, heap, resultsRef, completed, raceWinner, completedName,
                yielded, causes, streamError>>

parVars == <<options, ctor, ctorError, runnables, runnableNames, op, input, calls,
             cfgMeta, settled, promises, callPc, callIdx, callResults, callError,
             genPc, heap, resultsRef, completed, raceWinner, completedName,
             yielded, causes, streamError>>

\* RunnableParallel.batch
VARIABLES
    bInputs,        \* the `inputs` argument
    bPc,            \* Promise.all: "idle" | "pending" | "fulfilled" | "rejected"
    bStarted,       \* <<i, name, input>> of the child.invoke calls, in order
    bOk,            \* <<i, name>> of the children that fulfilled
    bFail,          \* <<i, name>> of the children that rejected
    bCall,          \* per input: "awaiting" | "returned" | "threw"
    bIdx,           \* per input: position of the second loop of _call
    bRes,           \* per input: the local `results` of _call
    bDone,          \* indices of the inputs whose _call returned, in time order
    bError,         \* the rejection of the batch
    bResult         \* the list the batch resolved with

batchVars == <<bInputs, bPc, bStarted, bOk, bFail, bCall, bIdx, bRes, bDone,
               bError, bResult>>

\* RetryManager (utils/retry.js)
VARIABLES
    retryOptions,       \* the options given to the constructor
    maxRetries,         \* this.maxRetries
    initialDelay,       \* this.initialDelay
    backoffMultiplier,  \* this.backoffMultiplier
    maxDelay,           \* this.maxDelay
    shouldRetry,        \* this.shouldRetry
    retryPc,            \* "new" | "ready" | "calling" | "sleeping" | "returned" | "threw"
    attempt,            \* the local `attempt` of execute
    delay,              \* the local `delay` of execute
    lastError,          \* the local `lastError` of execute
    fnCalls,            \* number of calls of fn so far
    fnInFlight,         \* calls of fn that have not settled
    sleeps,             \* the delays slept so far, in order
    outcomes,           \* how the calls of fn ended, in call order
    abandoned,          \* operations still running after their timeout fired
    retryResult,        \* what execute returned
    retryError          \* what execute threw

retryVars == <<retryOptions, maxRetries, initialDelay, backoffMultiplier, maxDelay,
               shouldRetry, retryPc, attempt, delay, lastError, fnCalls, fnInFlight,
               sleeps, outcomes, abandoned, retryResult, retryError>>

\* TimeoutManager (utils/timeout.js)
VARIABLES
    timeoutOptions,   \* the options given to the constructor
    defaultTimeout,   \* this.defaultTimeout
    timeoutPc,        \* "new" | "ready" | "racing" | "settled"  (the promise of execute)
    timeoutArg,       \* the second argument of execute: <<>> when omitted, else <<t>>
    fnState,          \* "none" | "threw" | "pending" | "resolved" | "rejected"
    timerState,       \* "none" | "armed" | "fired"
    timerMs,          \* the duration given to setTimeout
    raceEvents,       \* "fn" and "timer" in the order in which they settled
    timeoutOutcome    \* how the promise of execute settled

timeoutVars == <<timeoutOptions, defaultTimeout, timeoutPc, timeoutArg, fnState,
                 timerState, timerMs, raceEvents, timeoutOutcome>>

\* Task.invoke and its LifecycleManager
VARIABLES
    handlers,      \* config.callbacks, in registration order
    workWill,      \* what the concrete work does: "ok" | "fail"
    invokePc,      \* "idle" | "onStart" | "working" | "onEnd" | "onError" | "returned" | "threw"
    handlerIdx,    \* index of the next handler of the running notify call
    hooksInFlight, \* hooks called and not yet settled
    trace,         \* notify calls, hook calls and runs of the work, in order
    reported,      \* handler exceptions caught and reported by the manager
    invokeResult,  \* what invoke returned
    invokeError    \* what invoke threw

invokeVars == <<handlers, workWill, invokePc, handlerIdx, hooksInFlight, trace, reported,
                invokeResult, invokeError>>

\* ExecutionConfig
VARIABLES
    configs,     \* the config objects, by address
    parentOf,    \* for each config, the config whose child() made it (0: none)
    created,     \* the attributes the first config was created with
    lastChild    \* the last call of child(): receiver, outcome, returned address

configVars == <<configs, parentOf, created, lastChild>>

\* Sequence
VARIABLES
    steps,       \* the children, in order
    seqInput,    \* the input of invoke
    seqConfig,   \* the config of invoke
    seqPc,       \* "idle" | "running" | "returned" | "threw"
    stepIdx,     \* index of the child in flight
    carried,     \* the value given to the child in flight
    seqLog,      \* starts, ends and failures of the children, in order
    seqResult,   \* <<v>> when _execute returned v, else <<>>
    seqError     \* what _execute threw

seqVars == <<steps, seqInput, seqConfig, seqPc, stepIdx, carried, seqLog, seqResult,
             seqError>>

\* Logger (utils/logger.js)
VARIABLES
    loggerPc,          \* "new" | "ready"
    level,             \* this.level
    prefix,            \* this.prefix
    includeTimestamp,  \* this.includeTimestamp
    includeLevel,      \* this.includeLevel
    currentLevel,      \* this.currentLevel
    lastLog            \* the last call of error/warn/info/debug and what it wrote

loggerVars == <<loggerPc, level, prefix, includeTimestamp, includeLevel, currentLevel,
                lastLog>>

\* TokenCounter (utils/token-counter.js)
VARIABLES
    tokenPc,          \* "new" | "ready" | "loop" | "truncated" | "checked"
    tokenizer,        \* this.tokenizer
    estimationRatio,  \* this.estimationRatio
    contextSize,      \* this.contextSize
    text,             \* the text argument
    maxTokens,        \* the maxTokens argument of truncateToTokens
    estimate,         \* the local `estimate` of truncateToTokens, then its result
    bufferArg,        \* the bufferTokens argument of isWithinLimit: <<>> when omitted
    tokenCheck        \* what isWithinLimit returned

tokenVars == <<tokenPc, tokenizer, estimationRatio, contextSize, text, maxTokens,
               estimate, bufferArg, tokenCheck>>

extVars == <<batchVars, retryVars, timeoutVars, invokeVars, configVars, seqVars,
             loggerVars, tokenVars>>

vars == <<parVars, extVars>>

\* ------------------------------------------------------------- helpers
SettledNames == {settled[i][1] : i \in 1..Len(settled)}

Outcome(n) == settled[CHOOSE i \in 1..Len(settled) : settled[i][1] = n][2]

Fulfilled(n) == n \in SettledNames /\ Outcome(n)

Rejected(n) == n \in SettledNames /\ ~Outcome(n)

Started == {calls[i].name : i \in 1..Len(calls)}

Pending(n) == n \in Started /\ n \notin SettledNames

\* The children started for the names ks, each with the same input.
StartFirstOnly(ks, x, cfg) ==
    [i \in 1..(IF Len(ks) = 0 THEN 0 ELSE 1) |->
        [name |-> ks[i], input |-> x, config |-> cfg]]

StartAll(ks, x, cfg) ==
    [i \in 1..Len(ks) |-> [name |-> ks[i], input |-> x, config |-> ChildConfig(cfg, ks[i])]]

\* Tags written by the "duck" children during the synchronous part of
\* their invoke.
TagsOf(cs) ==
    {<<cs[i].config, cs[i].name>> :
        i \in {j \in 1..Len(cs) : Get(runnables, cs[j].name) = "duck"}}

InitPar ==
    /\ options = [type |-> "undefined", props |-> <<>>]
    /\ ctor = "none"
    /\ ctorError = NoError
    /\ runnables = <<>>
    /\ runnableNames = <<>>
    /\ op = "none"
    /\ input = "x"
    /\ calls = <<>>
    /\ cfgMeta = {}
    /\ settled = <<>>
    /\ promises = <<>>
    /\ callPc = "idle"
    /\ callIdx = 0
    /\ callResults = <<>>
    /\ callError = NoChildError
    /\ genPc = "idle"
    /\ heap = <<>>
    /\ resultsRef = 0
    /\ completed = 0
    /\ raceWinner = None
    /\ completedName = None
    /\ yielded = <<>>
    /\ causes = <<>>
    /\ streamError = NoChildError

InitBatch ==
    /\ bInputs = <<>>
    /\ bPc = "idle"
    /\ bStarted = <<>>
    /\ bOk = {}
    /\ bFail = {}
    /\ bCall = <<>>
    /\ bIdx = <<>>
    /\ bRes = <<>>
    /\ bDone = <<>>
    /\ bError = NoChildError
    /\ bResult = <<>>

InitRetry ==
    /\ retryOptions = <<>>
    /\ maxRetries = 0
    /\ initialDelay = 0
    /\ backoffMultiplier = 0
    /\ maxDelay = 0
    /\ shouldRetry = "always"
    /\ retryPc = "new"
    /\ attempt = 0
    /\ delay = 0
    /\ lastError = "none"
    /\ fnCalls = 0
    /\ fnInFlight = 0
    /\ sleeps = <<>>
    /\ outcomes = <<>>
    /\ abandoned = 0
    /\ retryResult = "none"
    /\ retryError = [type |-> "none", attempts |-> 0, message |-> "none"]

Unsettled == [kind |-> "none", ms |-> 0]

InitTimeout ==
    /\ timeoutOptions = <<>>
    /\ defaultTimeout = 0
    /\ timeoutPc = "new"
    /\ timeoutArg = <<>>
    /\ fnState = "none"
    /\ timerState = "none"
    /\ timerMs = 0
    /\ raceEvents = <<>>
    /\ timeoutOutcome = Unsettled

InitInvoke ==
    /\ handlers = <<>>
    /\ workWill = "ok"
    /\ invokePc = "idle"
    /\ handlerIdx = 0
    /\ hooksInFlight = 0
    /\ trace = <<>>
    /\ reported = <<>>
    /\ invokeResult = "none"
    /\ invokeError = "none"

NoConfig == [callbacks |-> <<>>, metadata |-> <<>>, tags |-> {}, recursionLimit |-> 0]

NoChildCall == [receiver |-> 0, outcome |-> "none", result |-> 0]

InitConfig ==
    /\ configs = <<>>
    /\ parentOf = <<>>
    /\ created = NoConfig
    /\ lastChild = NoChildCall

NoSeqError == [content |-> "none", step |-> 0]

InitSeq ==
    /\ steps = <<>>
    /\ seqInput = 0
    /\ seqConfig = NoConfig
    /\ seqPc = "idle"
    /\ stepIdx = 0
    /\ carried = 0
    /\ seqLog = <<>>
    /\ seqResult = <<>>
    /\ seqError = NoSeqError

NoLog == [severity |-> "none", level |-> "none", emitted |-> FALSE, channel |-> "none",
          output |-> <<>>]

InitLogger ==
    /\ loggerPc = "new"
    /\ level = "none"
    /\ prefix = "none"
    /\ includeTimestamp = FALSE
    /\ includeLevel = FALSE
    /\ currentLevel = 0
    /\ lastLog = NoLog

NoCheck == [isWithinLimit |-> FALSE, tokenCount |-> 0, remainingTokens |-> 0]

InitToken ==
    /\ tokenPc = "new"
    /\ tokenizer = "null"
    /\ estimationRatio = 0
    /\ contextSize = 0
    /\ text = <<>>
    /\ maxTokens = 0
    /\ estimate = <<>>
    /\ bufferArg = <<>>
    /\ tokenCheck = NoCheck

InitExt ==
    /\ InitBatch /\ InitRetry /\ InitTimeout /\ InitInvoke /\ InitConfig /\ InitSeq
    /\ InitLogger
    /\ InitToken

Init == InitPar /\ InitExt

\* ----------------------------------------------------------- constructor
\* new RunnableParallel(options)
ConstructorResult(o) ==
    LET opts == IF o.type = "undefined" THEN [type |-> "object", props |-> <<>>] ELSE o
    IN  IF RejectsOptions(opts)
        THEN [ok |-> FALSE, error |-> RequiresObjectError, props |-> <<>>]
        ELSE IF opts.type = "null"
        THEN [ok |-> FALSE, error |-> NullKeysError, props |-> <<>>]
        ELSE IF FirstInvalid(opts.props) # 0
        THEN [ok |-> FALSE,
              error |-> MustBeRunnableError(opts.props[FirstInvalid(opts.props)][1]),
              props |-> <<>>]
        ELSE [ok |-> TRUE, error |-> NoError, props |-> opts.props]

Constructor(o) ==
    /\ ctor = "none"
    /\ options' = o
    /\ LET r == ConstructorResult(o)
       IN  /\ ctor' = IF r.ok THEN "ok" ELSE "threw"
           /\ ctorError' = r.error
           /\ runnables' = r.props
           /\ runnableNames' = Keys(r.props)
    /\ UNCHANGED <<op, input, calls, cfgMeta, settled, promises, callVars, streamVars, extVars>>

\* ------------------------------------------------------------- children
\* .then(result => { results[name] = result; return result; })
ThenRecordNothing(results, name, value) == results

ThenRecord(results, name, value) == SetKey(results, name, value)

\* The reaction has no rejection handler: a rejection leaves results alone.
ThenRejectedMarker(results, name) == SetKey(results, name, <<"error", name>>)

ThenRejected(results, name) == results

\* A started child settles: it fulfils with its result or rejects.  In
\* _stream the reaction attached to the child's promise records the result,
\* and an undecided race over promises[n] is decided.
Settle(n, ok) ==
    /\ Pending(n)
    /\ settled' = Append(settled, <<n, ok>>)
    /\ IF op = "stream"
       THEN /\ heap' = IF ok
                       THEN [heap EXCEPT ![resultsRef] =
                                ThenRecord(@, n, ChildResult(n, input))]
                       ELSE [heap EXCEPT ![resultsRef] = ThenRejected(@, n)]
            /\ raceWinner' = IF genPc = "racing" /\ raceWinner = None
                                  /\ n \in SeqSet(promises)
                              THEN n ELSE raceWinner
       ELSE UNCHANGED <<heap, raceWinner>>
    /\ UNCHANGED <<ctorVars, op, input, calls, cfgMeta, promises, callVars,
                   genPc, resultsRef, completed, completedName, yielded, causes,
                   streamError, extVars>>

\* ---------------------------------------------------------------- _call
\* `x.invoke(...)` on a value x that is missing or has no invoke method.
InvokeTypeError(n) == [content |-> <<"TypeError", n>>, node |-> "none"]

\* The names whose children a start loop over props invokes: all of them,
\* or those before the first value that cannot be invoked.
Invoked(props) ==
    IF FirstInvalid(props) = 0 THEN Keys(props)
    ELSE SubSeq(Keys(props), 1, FirstInvalid(props) - 1)

\* First loop of _call: every child is invoked before anything is awaited.
\* The loop throws at a value that cannot be invoked.
CallStart(x) ==
    /\ ctor = "ok"
    /\ op = "none"
    /\ op' = "call"
    /\ input' = x
    /\ calls' = StartAll(Invoked(runnables), x, CallConfig)
    /\ cfgMeta' = TagsOf(calls')
    /\ promises' = Invoked(runnables)
    /\ callIdx' = 1
    /\ IF FirstInvalid(runnables) # 0
       THEN /\ callPc' = "threw"
            /\ callError' = InvokeTypeError(runnables[FirstInvalid(runnables)][1])
       ELSE /\ callPc' = IF Len(runnables) = 0 THEN "returned" ELSE "awaiting"
            /\ UNCHANGED callError
    /\ UNCHANGED <<ctorVars, settled, callResults, streamVars, extVars>>

\* The promise the second loop of _call awaits in its i-th iteration:
\* the i-th entry of Object.entries(promises).
AwaitedReverse(ps, i) == ps[Len(ps) + 1 - i]

Awaited(ps, i) == ps[i]

\* results[name] = await promise
RecordFirst(results, name, value) == <<<<name, value>>>> \o results

Record(results, name, value) == SetKey(results, name, value)

CallAwait ==
    /\ op = "call"
    /\ callPc = "awaiting"
    /\ LET n == Awaited(promises, callIdx)
       IN  /\ n \in SettledNames
           /\ IF Outcome(n)
              THEN /\ callResults' = Record(callResults, n, ChildResult(n, input))
                   /\ callIdx' = callIdx + 1
                   /\ callPc' = IF callIdx = Len(promises) THEN "returned" ELSE "awaiting"
                   /\ UNCHANGED callError
              ELSE /\ callError' = Rethrow(ChildError(n), n)
                   /\ callPc' = "threw"
                   /\ UNCHANGED <<callResults, callIdx>>
    /\ UNCHANGED <<ctorVars, op, input, calls, cfgMeta, settled, promises, streamVars, extVars>>

\* -------------------------------------------------------------- _stream
\* Promise.race(Object.entries(promises).map(([name, p]) => p.then(() => name)))
\* The reactions of the promises that are already settled are queued in
\* Object.entries order, so the first of them wins; with none settled the
\* race stays undecided until a child settles.
Race(ps, done) ==
    LET ready == {i \in 1..Len(ps) : ps[i] \in done}
    IN  IF ready = {} THEN None ELSE ps[CHOOSE i \in ready : \A j \in ready : i <= j]

\* { ...results }
SpreadLast(m) == IF m = <<>> THEN m ELSE <<m[Len(m)]>>

Spread(m) == m

\* The object `yield { ...results }` hands out: the one just allocated.
YieldedRefAlias(h, rref) == rref

YieldedRef(h, rref) == Len(h)

\* this.runnables[name] for every name of this.runnableNames.
Lookups(names, props) ==
    [i \in 1..Len(names) |->
        <<names[i], IF HasKey(props, names[i]) THEN Get(props, names[i]) ELSE "undefined">>]

\* The consumer's first next(): the children are started and the first
\* race is created.  The start loop throws at a name whose value cannot
\* be invoked.
StreamStart(x) ==
    /\ ctor = "ok"
    /\ op = "none"
    /\ op' = "stream"
    /\ input' = x
    /\ LET found == Lookups(runnableNames, runnables)
       IN  /\ calls' = StartAll(Invoked(found), x, CallConfig)
           /\ promises' = Invoked(found)
           /\ IF FirstInvalid(found) # 0
              THEN /\ genPc' = "threw"
                   /\ streamError' = InvokeTypeError(found[FirstInvalid(found)][1])
              ELSE /\ genPc' = IF 0 < Len(runnableNames) THEN "racing" ELSE "done"
                   /\ UNCHANGED streamError
    /\ cfgMeta' = TagsOf(calls')
    /\ heap' = << <<>> >>
    /\ resultsRef' = 1
    /\ completed' = 0
    /\ raceWinner' = None
    /\ UNCHANGED <<ctorVars, settled, callVars, completedName, yielded, causes,
                   extVars>>

\* `await nextPromise` resumes: the generator throws the rejection of the
\* winner, or counts it and yields a copy of results.
StreamResume ==
    /\ op = "stream"
    /\ genPc = "racing"
    /\ raceWinner # None
    /\ IF Rejected(raceWinner)
       THEN /\ genPc' = "threw"
            /\ streamError' = ChildError(raceWinner)
            /\ UNCHANGED <<heap, completed, completedName, yielded, causes>>
       ELSE /\ completedName' = raceWinner
            /\ completed' = completed + 1
            /\ heap' = Append(heap, Spread(heap[resultsRef]))
            /\ yielded' = Append(yielded, YieldedRef(heap', resultsRef))
            /\ causes' = Append(causes, raceWinner)
            /\ genPc' = "yielded"
            /\ UNCHANGED streamError
    /\ UNCHANGED <<ctorVars, op, input, calls, cfgMeta, settled, promises, callVars,
                   resultsRef, raceWinner, extVars>>

\* The consumer's next() after a yield: the completed promise is removed,
\* then the loop either races the remaining promises or ends.
StreamNext ==
    /\ op = "stream"
    /\ genPc = "yielded"
    /\ promises' = DeleteKey(promises, completedName)
    /\ IF completed < Len(runnableNames)
       THEN /\ genPc' = "racing"
            /\ raceWinner' = Race(promises', SettledNames)
       ELSE /\ genPc' = "done"
            /\ UNCHANGED raceWinner
    /\ UNCHANGED <<ctorVars, op, input, calls, cfgMeta, settled, callVars, heap,
                   resultsRef, completed, completedName, yielded, causes, streamError,
                   extVars>>

Next ==
    \/ \E o \in Options : Constructor(o)
    \/ \E x \in Inputs : CallStart(x)
    \/ \E n \in Names, ok \in BOOLEAN : Settle(n, ok)
    \/ CallAwait
    \/ \E x \in Inputs : StreamStart(x)
    \/ StreamResume
    \/ StreamNext

Spec == Init /\ [][Next]_vars

\* ====================================================== the options object
\* this.runnables is the object the caller passed, not a copy of it: the
\* caller still holds it (and this.runnables is a public field) and can
\* assign or delete a property after the constructor has returned.
\* this.runnableNames was computed once, in the constructor.  The caller
\* changes the object at most once here, before an operation starts.
CallerKinds == {"task", "plain"}

CallerSets(n, kind) ==
    /\ ctor = "ok"
    /\ op = "none"
    /\ options.type = "object"
    /\ runnables = options.props
    /\ runnables' = SetKey(runnables, n, kind)
    /\ UNCHANGED <<options, ctor, ctorError, runnableNames, op, input, calls, cfgMeta,
                   settled, promises, callVars, streamVars, extVars>>

CallerDeletes(n) ==
    /\ ctor = "ok"
    /\ op = "none"
    /\ options.type = "object"
    /\ runnables = options.props
    /\ HasKey(runnables, n)
    /\ runnables' = SelectSeq(runnables, LAMBDA pr : pr[1] # n)
    /\ UNCHANGED <<options, ctor, ctorError, runnableNames, op, input, calls, cfgMeta,
                   settled, promises, callVars, streamVars, extVars>>

\* getRunnames()
GetRunnames == runnableNames

\* hasRunnable(name)
HasRunnable(n) == HasKey(runnables, n)

NextMutate ==
    \/ \E o \in Options : Constructor(o)
    \/ \E n \in Names, kind \in CallerKinds : CallerSets(n, kind)
    \/ \E n \in Names : CallerDeletes(n)
    \/ \E x \in Inputs : CallStart(x)
    \/ \E n \in Names, ok \in BOOLEAN : Settle(n, ok)
    \/ CallAwait
    \/ \E x \in Inputs : StreamStart(x)
    \/ StreamResume
    \/ StreamNext

SpecMutate == Init /\ [][NextMutate]_vars

\* ================================================================= batch
\* batch(inputs, config) : Promise.all(inputs.map(input => this._call(input, config)))
BatchNames == {NamePool[i] : i \in 1..MaxBatchBranches}

\* Groups of Runnables over the first MaxBatchBranches names.
BatchOptions ==
    {o \in ObjectOptions :
        \A i \in 1..Len(o.props) :
            o.props[i][1] \in BatchNames /\ o.props[i][2] = "task"}

RECURSIVE SeqsUpTo(_, _)
SeqsUpTo(S, n) ==
    IF n = 0 THEN {<<>>}
    ELSE LET shorter == SeqsUpTo(S, n - 1)
         IN  shorter \cup {Append(q, e) : q \in shorter, e \in S}

BatchInputs == SeqsUpTo(Inputs, MaxBatch)

\* The input the i-th _call of the batch is given.
ElemInputFirst(ins, i) == ins[1]

ElemInput(ins, i) == ins[i]

\* inputs.map(...) runs the first loop of every _call, one input after the
\* other, before any promise is awaited.
RECURSIVE BatchStarts(_, _, _)
BatchStarts(ins, ks, i) ==
    IF i > Len(ins) THEN <<>>
    ELSE [j \in 1..Len(ks) |-> <<i, ks[j], ElemInput(ins, i)>>]
            \o BatchStarts(ins, ks, i + 1)

BatchStart(ins) ==
    /\ ctor = "ok"
    /\ op = "none"
    /\ op' = "batch"
    /\ bInputs' = ins
    /\ bPc' = "pending"
    /\ bStarted' = BatchStarts(ins, Keys(runnables), 1)
    /\ bCall' = [i \in 1..Len(ins) |->
                    IF Len(runnables) = 0 THEN "returned" ELSE "awaiting"]
    /\ bIdx' = [i \in 1..Len(ins) |-> 1]
    /\ bRes' = [i \in 1..Len(ins) |-> <<>>]
    /\ bDone' = IF Len(runnables) = 0 THEN [i \in 1..Len(ins) |-> i] ELSE <<>>
    /\ UNCHANGED <<ctorVars, input, calls, cfgMeta, settled, promises, callVars,
                   streamVars, bOk, bFail, bError, bResult, retryVars, timeoutVars, invokeVars, configVars, seqVars, loggerVars, tokenVars, loggerVars, tokenVars>>

BatchChildPending(i, n) ==
    /\ \E k \in 1..Len(bStarted) : bStarted[k][1] = i /\ bStarted[k][2] = n
    /\ <<i, n>> \notin bOk \cup bFail

\* A child started by the batch settles.
BatchChildSettle(i, n, ok) ==
    /\ op = "batch"
    /\ BatchChildPending(i, n)
    /\ bOk' = IF ok THEN bOk \cup {<<i, n>>} ELSE bOk
    /\ bFail' = IF ok THEN bFail ELSE bFail \cup {<<i, n>>}
    /\ UNCHANGED <<parVars, tokenVars, bInputs, bPc, bStarted, bCall, bIdx, bRes, bDone,
                   bError, bResult, retryVars, timeoutVars, invokeVars, configVars, seqVars, loggerVars, loggerVars>>

\* The second loop of the i-th _call takes one step; Promise.all rejects
\* with the first rejection among the _call promises.
BatchCallAwait(i) ==
    /\ op = "batch"
    /\ i \in 1..Len(bInputs)
    /\ bCall[i] = "awaiting"
    /\ LET n == Awaited(Keys(runnables), bIdx[i])
       IN  /\ <<i, n>> \in bOk \cup bFail
           /\ IF <<i, n>> \in bOk
              THEN /\ bRes' = [bRes EXCEPT ![i] =
                                  Record(@, n, ChildResult(n, ElemInput(bInputs, i)))]
                   /\ bIdx' = [bIdx EXCEPT ![i] = @ + 1]
                   /\ bCall' = [bCall EXCEPT ![i] =
                                   IF bIdx[i] = Len(runnables) THEN "returned" ELSE "awaiting"]
                   /\ bDone' = IF bIdx[i] = Len(runnables) THEN Append(bDone, i) ELSE bDone
                   /\ UNCHANGED <<bPc, bError>>
              ELSE /\ bCall' = [bCall EXCEPT ![i] = "threw"]
                   /\ bPc' = IF bPc = "pending" THEN "rejected" ELSE bPc
                   /\ bError' = IF bPc = "pending" THEN Rethrow(ChildError(n), n) ELSE bError
                   /\ UNCHANGED <<bRes, bIdx, bDone>>
    /\ UNCHANGED <<parVars, tokenVars, bInputs, bStarted, bOk, bFail, bResult, retryVars, timeoutVars, invokeVars, configVars, seqVars, loggerVars, loggerVars>>

\* The list Promise.all resolves with: the values in the order of the
\* promises it was given.
AllValues(res) == res

\* Promise.all fulfils once every _call promise has fulfilled.
BatchFulfil ==
    /\ op = "batch"
    /\ bPc = "pending"
    /\ \A i \in 1..Len(bInputs) : bCall[i] = "returned"
    /\ bPc' = "fulfilled"
    /\ bResult' = AllValues(bRes)
    /\ UNCHANGED <<parVars, tokenVars, bInputs, bStarted, bOk, bFail, bCall, bIdx, bRes, bDone,
                   bError, retryVars, timeoutVars, invokeVars, configVars, seqVars, loggerVars, loggerVars>>

NextBatch ==
    \/ \E o \in BatchOptions : Constructor(o)
    \/ \E ins \in BatchInputs : BatchStart(ins)
    \/ \E i \in 1..MaxBatch, n \in BatchNames, ok \in BOOLEAN : BatchChildSettle(i, n, ok)
    \/ \E i \in 1..MaxBatch : BatchCallAwait(i)
    \/ BatchFulfil

SpecBatch == Init /\ [][NextBatch]_vars

\* ========================================================== RetryManager
DefaultMaxRetries == 3

DefaultInitialDelay == 1000

DefaultBackoffMultiplier == 2

DefaultMaxDelay == 30000

\* Values the caller gives in options; a key can also be left out.
MaxRetriesOptions == 0..MaxRetriesOption

InitialDelayOptions == {0, 300}

BackoffMultiplierOptions == {1, 2}

MaxDelayOptions == {200, 2000}

\* options.shouldRetry: left out, or a predicate on the error.
ShouldRetryOptions == {"never", "transientOnly"}

\* The objects with any of the keys of ks, each with a value of vals[k].
RECURSIVE ObjectsOver(_, _)
ObjectsOver(ks, vals) ==
    IF ks = <<>> THEN {<<>>}
    ELSE LET rest == ObjectsOver(Tail(ks), vals)
         IN  rest \cup {<< <<Head(ks), v>> >> \o r : v \in vals[Head(ks)], r \in rest}

RetryOptions ==
    ObjectsOver(<<"maxRetries", "initialDelay", "backoffMultiplier", "maxDelay",
                  "shouldRetry">>,
                [maxRetries |-> MaxRetriesOptions,
                 initialDelay |-> InitialDelayOptions,
                 backoffMultiplier |-> BackoffMultiplierOptions,
                 maxDelay |-> MaxDelayOptions,
                 shouldRetry |-> ShouldRetryOptions])

\* options.key || fallback : the fallback replaces a missing key and every
\* falsy value, 0 included.
OrDefault(o, key, fallback) ==
    IF HasKey(o, key) /\ Get(o, key) # 0 THEN Get(o, key) ELSE fallback

\* constructor(options = {})
RetryConstructor(o) ==
    /\ retryPc = "new"
    /\ retryOptions' = o
    /\ maxRetries' = OrDefault(o, "maxRetries", DefaultMaxRetries)
    /\ initialDelay' = OrDefault(o, "initialDelay", DefaultInitialDelay)
    /\ backoffMultiplier' = OrDefault(o, "backoffMultiplier", DefaultBackoffMultiplier)
    /\ maxDelay' = OrDefault(o, "maxDelay", DefaultMaxDelay)
    /\ shouldRetry' = IF HasKey(o, "shouldRetry") THEN Get(o, "shouldRetry") ELSE "always"
    /\ retryPc' = "ready"
    /\ UNCHANGED <<parVars, tokenVars, batchVars, timeoutVars, invokeVars, configVars, seqVars, loggerVars, attempt, delay, lastError, fnCalls, fnInFlight,
                   sleeps, outcomes, abandoned, retryResult, retryError>>

\* What fn does when called: it resolves, or fails with one of two errors.
FnOutcomes == {"ok", "transient", "fatal"}

\* if (attempt < this.maxRetries): a failed attempt is followed by a sleep.
SleepsAfterEvery(a, n) == TRUE

SleepsBeforeRetry(a, n) == a < n

\* throw error, for an error shouldRetry refuses.
RethrownWrapped(error) == [type |-> "failed after", attempts |-> 1, message |-> error]

Rethrown(error) == [type |-> "original", attempts |-> 0, message |-> error]

\* this.shouldRetry(error)
\* The default accepts every error; "transientOnly" stands for a predicate
\* that accepts one kind of error and refuses the others, timeouts included.
ShouldRetry(policy, error) ==
    CASE policy = "always" -> TRUE
      [] policy = "never" -> FALSE
      [] policy = "transientOnly" -> error = "transient"

\* Math.min(delay * this.backoffMultiplier, this.maxDelay)
NextDelay(d, mult, cap) == IF d * mult < cap THEN d * mult ELSE cap

\* new Error(`Failed after ${this.maxRetries + 1} attempts: ${lastError.message}`)
FailedAfter(n, error) == [type |-> "failed after", attempts |-> n + 1, message |-> error]

\* execute(fn) up to the first `await fn()`.
RetryExecute ==
    /\ retryPc = "ready"
    /\ lastError' = "none"
    /\ delay' = initialDelay
    /\ attempt' = 0
    /\ retryPc' = "calling"
    /\ fnCalls' = fnCalls + 1
    /\ fnInFlight' = fnInFlight + 1
    /\ UNCHANGED <<parVars, tokenVars, batchVars, timeoutVars, invokeVars, configVars, seqVars, loggerVars, retryOptions, maxRetries, initialDelay,
                   backoffMultiplier, maxDelay, shouldRetry, sleeps, outcomes, abandoned,
                   retryResult, retryError>>

\* `await fn()` resumes with the value or the error `out` of fn.
AttemptEnds(out) ==
    /\ retryPc = "calling"
    /\ fnInFlight' = fnInFlight - 1
    /\ outcomes' = Append(outcomes, out)
    /\ IF out = "ok"
       THEN /\ retryPc' = "returned"
            /\ retryResult' = <<"value", fnCalls>>
            /\ UNCHANGED <<lastError, sleeps, attempt, retryError>>
       ELSE /\ lastError' = out
            /\ UNCHANGED retryResult
            /\ IF ~ShouldRetry(shouldRetry, out)
               THEN /\ retryPc' = "threw"
                    /\ retryError' = Rethrown(out)
                    /\ UNCHANGED <<sleeps, attempt>>
               ELSE IF SleepsBeforeRetry(attempt, maxRetries)
               THEN /\ retryPc' = "sleeping"
                    /\ sleeps' = Append(sleeps, delay)
                    /\ UNCHANGED <<attempt, retryError>>
               ELSE /\ retryPc' = "threw"
                    /\ attempt' = attempt + 1
                    /\ retryError' = FailedAfter(maxRetries, out)
                    /\ UNCHANGED sleeps
    /\ UNCHANGED <<parVars, tokenVars, loggerVars, batchVars, timeoutVars, invokeVars, configVars, seqVars,
                   retryOptions, maxRetries, initialDelay, backoffMultiplier, maxDelay,
                   shouldRetry, delay, fnCalls>>

\* fn settles by itself.
FnSettles(out) == AttemptEnds(out) /\ UNCHANGED abandoned

\* `await this._sleep(delay)` resumes: the delay grows, the loop goes on
\* with the next attempt.
SleepEnds ==
    /\ retryPc = "sleeping"
    /\ delay' = NextDelay(delay, backoffMultiplier, maxDelay)
    /\ attempt' = attempt + 1
    /\ IF attempt' <= maxRetries
       THEN /\ retryPc' = "calling"
            /\ fnCalls' = fnCalls + 1
            /\ fnInFlight' = fnInFlight + 1
            /\ UNCHANGED retryError
       ELSE /\ retryPc' = "threw"
            /\ retryError' = FailedAfter(maxRetries, lastError)
            /\ UNCHANGED <<fnCalls, fnInFlight>>
    /\ UNCHANGED <<parVars, tokenVars, batchVars, timeoutVars, invokeVars, configVars, seqVars, loggerVars, retryOptions, maxRetries, initialDelay,
                   backoffMultiplier, maxDelay, shouldRetry, lastError, sleeps,
                   outcomes, abandoned, retryResult>>

NextRetry ==
    \/ \E o \in RetryOptions : RetryConstructor(o)
    \/ RetryExecute
    \/ \E out \in FnOutcomes : FnSettles(out)
    \/ SleepEnds

SpecRetry == Init /\ [][NextRetry]_vars

\* ------------------------------------- retry.execute around timeout.execute
\* fn is `async () => await timeout.execute(() => operation(), t)`: a call
\* of fn starts one operation and ends with the operation's own outcome or,
\* when the timer fires first, with the 'Operation timed out' error while
\* the operation runs on.
AttemptTimesOut ==
    /\ AttemptEnds("timed out")
    /\ abandoned' = abandoned + 1

\* An operation whose timeout has fired settles; nobody awaits it any more.
AbandonedSettles ==
    /\ abandoned > 0
    /\ abandoned' = abandoned - 1
    /\ UNCHANGED <<parVars, tokenVars, loggerVars, batchVars, timeoutVars, invokeVars, configVars, seqVars,
                   retryOptions, maxRetries, initialDelay, backoffMultiplier, maxDelay,
                   shouldRetry, retryPc, attempt, delay, lastError, fnCalls, fnInFlight,
                   sleeps, outcomes, retryResult, retryError>>

\* Operations started and not yet settled.
OperationsInFlight == fnInFlight + abandoned

NextResilient ==
    \/ \E o \in RetryOptions : RetryConstructor(o)
    \/ RetryExecute
    \/ \E out \in FnOutcomes : FnSettles(out)
    \/ AttemptTimesOut
    \/ AbandonedSettles
    \/ SleepEnds

SpecResilient == Init /\ [][NextResilient]_vars

\* ======================================================== TimeoutManager
DefaultTimeout == 30000

\* options.defaultTimeout, when given.
DefaultTimeoutOptions == {0, 2000}

TimeoutOptions == ObjectsOver(<<"defaultTimeout">>, [defaultTimeout |-> DefaultTimeoutOptions])

\* The second argument of execute: left out, or a number of milliseconds.
TimeoutArgs == {<<>>, <<0>>, <<1500>>, <<60000>>}

\* constructor(options = {})
TimeoutConstructor(o) ==
    /\ timeoutPc = "new"
    /\ timeoutOptions' = o
    /\ defaultTimeout' = OrDefault(o, "defaultTimeout", DefaultTimeout)
    /\ timeoutPc' = "ready"
    /\ UNCHANGED <<parVars, tokenVars, batchVars, retryVars, invokeVars, configVars, seqVars, loggerVars, timeoutArg, fnState, timerState,
                   timerMs, raceEvents, timeoutOutcome>>

\* What the call fn() does: it throws, it returns a value or a promise that
\* is already settled, or it returns a promise that is still pending.
FnKinds == {"threw", "resolved", "rejected", "pending"}

\* timeout = this.defaultTimeout
TimeoutOf(arg, dflt) == IF arg = <<>> THEN dflt ELSE arg[1]

FnOutcome(st) == [kind |-> IF st = "resolved" THEN "fn value" ELSE "fn error", ms |-> 0]

\* new Error(`Operation timed out after ${timeout}ms`)
TimedOut(ms) == [kind |-> "timed out", ms |-> ms]

\* Promise.race: the first settlement decides, later ones are ignored.
RaceSettleLast(pc, current, new) == new

RaceSettle(pc, current, new) == IF pc = "racing" THEN new ELSE current

\* execute(fn, timeout): fn() is called first; when it throws the timer is
\* never created and the promise of execute rejects with that error.
TimeoutExecute(kind, arg) ==
    /\ timeoutPc = "ready"
    /\ timeoutArg' = arg
    /\ fnState' = kind
    /\ IF kind = "threw"
       THEN /\ timeoutPc' = "settled"
            /\ raceEvents' = <<"fn">>
            /\ timeoutOutcome' = FnOutcome(kind)
            /\ UNCHANGED <<timerState, timerMs>>
       ELSE /\ timerState' = "armed"
            /\ timerMs' = TimeoutOf(arg, defaultTimeout)
            /\ IF kind \in {"resolved", "rejected"}
               THEN /\ timeoutPc' = "settled"
                    /\ raceEvents' = <<"fn">>
                    /\ timeoutOutcome' = FnOutcome(kind)
               ELSE /\ timeoutPc' = "racing"
                    /\ UNCHANGED <<raceEvents, timeoutOutcome>>
    /\ UNCHANGED <<parVars, tokenVars, batchVars, retryVars, invokeVars, configVars, seqVars, loggerVars, timeoutOptions, defaultTimeout>>

\* The promise returned by fn settles.
OperationSettles(ok) ==
    /\ fnState = "pending"
    /\ fnState' = IF ok THEN "resolved" ELSE "rejected"
    /\ raceEvents' = Append(raceEvents, "fn")
    /\ timeoutOutcome' = RaceSettle(timeoutPc, timeoutOutcome, FnOutcome(fnState'))
    /\ timeoutPc' = "settled"
    /\ UNCHANGED <<parVars, tokenVars, batchVars, retryVars, invokeVars, configVars, seqVars, loggerVars, timeoutOptions, defaultTimeout,
                   timeoutArg, timerState, timerMs>>

\* The callback of setTimeout runs; the timer is never cleared.
TimerFires ==
    /\ timerState = "armed"
    /\ timerState' = "fired"
    /\ raceEvents' = Append(raceEvents, "timer")
    /\ timeoutOutcome' = RaceSettle(timeoutPc, timeoutOutcome, TimedOut(timerMs))
    /\ timeoutPc' = "settled"
    /\ UNCHANGED <<parVars, tokenVars, batchVars, retryVars, invokeVars, configVars, seqVars, loggerVars, timeoutOptions, defaultTimeout,
                   timeoutArg, fnState, timerMs>>

NextTimeout ==
    \/ \E o \in TimeoutOptions : TimeoutConstructor(o)
    \/ \E kind \in FnKinds, arg \in TimeoutArgs : TimeoutExecute(kind, arg)
    \/ \E ok \in BOOLEAN : OperationSettles(ok)
    \/ TimerFires

SpecTimeout == Init /\ [][NextTimeout]_vars

\* ============================================ Task.invoke, LifecycleManager
\* Handlers: one with onStart and onEnd only, one with the three hooks, and
\* one whose three hooks all throw.
HandlerKinds == {"logger", "metrics", "faulty"}

HandlerLists == SeqsUpTo(HandlerKinds, MaxHandlers)

HasHook(h, event) == h # "logger" \/ event \in {"onStart", "onEnd"}

HookThrows(h, event) == h = "faulty"

WorkResult == "result"

WorkError == "work error"

Notified(event, payload) ==
    [what |-> "notify", event |-> event, handler |-> 0, payload |-> payload]

Hooked(event, i, payload) ==
    [what |-> "hook", event |-> event, handler |-> i, payload |-> payload]

Worked == [what |-> "work", event |-> "none", handler |-> 0, payload |-> "input"]

\* What the running notify call passes to the hooks.
PayloadOf(event) ==
    CASE event = "onStart" -> "input"
      [] event = "onEnd" -> WorkResult
      [] event = "onError" -> WorkError

\* The handler a notify call continues with after a hook has settled.
NextHandlerStopOnThrow(i, threw) == IF threw THEN Len(handlers) + 1 ELSE i + 1

NextHandler(i, threw) == i + 1

\* The notification that follows the work.
AfterWorkAlwaysEnd(will) == "onEnd"

AfterWork(will) == IF will = "ok" THEN "onEnd" ELSE "onError"

Notifying == invokePc \in {"onStart", "onEnd", "onError"}

\* invoke(input, config): accept the config, notifyStart.
Invoke(hs, will) ==
    /\ invokePc = "idle"
    /\ handlers' = hs
    /\ workWill' = will
    /\ invokePc' = "onStart"
    /\ handlerIdx' = 1
    /\ trace' = <<Notified("onStart", "input")>>
    /\ UNCHANGED <<parVars, tokenVars, batchVars, retryVars, timeoutVars, configVars, seqVars, loggerVars, hooksInFlight, reported,
                   invokeResult, invokeError>>

\* The notify call reaches a handler that has the hook and calls it.
HookCall ==
    /\ Notifying
    /\ hooksInFlight = 0
    /\ handlerIdx <= Len(handlers)
    /\ HasHook(handlers[handlerIdx], invokePc)
    /\ trace' = Append(trace, Hooked(invokePc, handlerIdx, PayloadOf(invokePc)))
    /\ hooksInFlight' = hooksInFlight + 1
    /\ UNCHANGED <<parVars, tokenVars, batchVars, retryVars, timeoutVars, configVars, seqVars, loggerVars, handlers, workWill,
                   invokePc, handlerIdx, reported, invokeResult, invokeError>>

\* The notify call passes over a handler without the hook.
HookSkip ==
    /\ Notifying
    /\ hooksInFlight = 0
    /\ handlerIdx <= Len(handlers)
    /\ ~HasHook(handlers[handlerIdx], invokePc)
    /\ handlerIdx' = handlerIdx + 1
    /\ UNCHANGED <<parVars, tokenVars, batchVars, retryVars, timeoutVars, configVars, seqVars, loggerVars, handlers, workWill,
                   invokePc, hooksInFlight, trace, reported, invokeResult, invokeError>>

\* The awaited hook settles; an exception is caught, reported and dropped.
HookSettles ==
    /\ Notifying
    /\ hooksInFlight > 0
    /\ hooksInFlight' = hooksInFlight - 1
    /\ LET threw == HookThrows(handlers[handlerIdx], invokePc)
       IN  /\ reported' = IF threw THEN Append(reported, <<invokePc, handlerIdx>>)
                          ELSE reported
           /\ handlerIdx' = NextHandler(handlerIdx, threw)
    /\ UNCHANGED <<parVars, tokenVars, batchVars, retryVars, timeoutVars, configVars, seqVars, loggerVars, handlers, workWill,
                   invokePc, trace, invokeResult, invokeError>>

NotifyDone == Notifying /\ hooksInFlight = 0 /\ handlerIdx > Len(handlers)

\* notifyStart has returned: the concrete work (_execute) starts.
WorkStarts ==
    /\ invokePc = "onStart"
    /\ NotifyDone
    /\ invokePc' = "working"
    /\ trace' = Append(trace, Worked)
    /\ UNCHANGED <<parVars, tokenVars, batchVars, retryVars, timeoutVars, configVars, seqVars, loggerVars, handlers, workWill,
                   handlerIdx, hooksInFlight, reported, invokeResult, invokeError>>

\* The work settles: notifyEnd with the result, or notifyError with the error.
WorkSettles ==
    /\ invokePc = "working"
    /\ invokePc' = AfterWork(workWill)
    /\ handlerIdx' = 1
    /\ trace' = Append(trace, Notified(invokePc', PayloadOf(invokePc')))
    /\ UNCHANGED <<parVars, tokenVars, batchVars, retryVars, timeoutVars, configVars, seqVars, loggerVars, handlers, workWill,
                   hooksInFlight, reported, invokeResult, invokeError>>

\* notifyEnd has returned: invoke returns the result.
InvokeReturns ==
    /\ invokePc = "onEnd"
    /\ NotifyDone
    /\ invokePc' = "returned"
    /\ invokeResult' = WorkResult
    /\ UNCHANGED <<parVars, tokenVars, batchVars, retryVars, timeoutVars, configVars, seqVars, loggerVars, handlers, workWill,
                   handlerIdx, hooksInFlight, trace, reported, invokeError>>

\* notifyError has returned: invoke re-throws the error of the work.
InvokeRethrows ==
    /\ invokePc = "onError"
    /\ NotifyDone
    /\ invokePc' = "threw"
    /\ invokeError' = WorkError
    /\ UNCHANGED <<parVars, tokenVars, batchVars, retryVars, timeoutVars, configVars, seqVars, loggerVars, handlers, workWill,
                   handlerIdx, hooksInFlight, trace, reported, invokeResult>>

NextInvoke ==
    \/ \E hs \in HandlerLists, will \in {"ok", "fail"} : Invoke(hs, will)
    \/ HookCall
    \/ HookSkip
    \/ HookSettles
    \/ WorkStarts
    \/ WorkSettles
    \/ InvokeReturns
    \/ InvokeRethrows

SpecInvoke == Init /\ [][NextInvoke]_vars

\* ========================================================= ExecutionConfig
ConfigAttributes ==
    [callbacks : {<<>>, <<"logger">>},
     metadata : {<<>>, << <<"user", "u1">> >>},
     tags : {{}, {"t"}},
     recursionLimit : 0..MaxLimit]

\* child() on a config with this limit is an error.
LimitReachedEarly(limit) == limit <= 1

LimitReached(limit) == limit = 0

\* The copy child() returns.
ChildOf(c) == [c EXCEPT !.recursionLimit = @ - 1]

\* new ExecutionConfig(attributes)
ConfigCreate(attrs) ==
    /\ configs = <<>>
    /\ configs' = <<attrs>>
    /\ parentOf' = <<0>>
    /\ created' = attrs
    /\ UNCHANGED <<parVars, tokenVars, loggerVars, batchVars, retryVars, timeoutVars, invokeVars, seqVars, lastChild>>

\* configs[a].child()
Child(a) ==
    /\ a \in 1..Len(configs)
    /\ IF LimitReached(configs[a].recursionLimit)
       THEN /\ lastChild' = [receiver |-> a, outcome |-> "RecursionLimitError", result |-> 0]
            /\ UNCHANGED <<configs, parentOf>>
       ELSE /\ Len(configs) < MaxConfigs
            /\ configs' = Append(configs, ChildOf(configs[a]))
            /\ parentOf' = Append(parentOf, a)
            /\ lastChild' = [receiver |-> a, outcome |-> "ok", result |-> Len(configs) + 1]
    /\ UNCHANGED <<parVars, tokenVars, loggerVars, batchVars, retryVars, timeoutVars, invokeVars, seqVars, created>>

NextConfig ==
    \/ \E attrs \in ConfigAttributes : ConfigCreate(attrs)
    \/ \E a \in 1..MaxConfigs : Child(a)

SpecConfig == Init /\ [][NextConfig]_vars

\* ================================================================ Sequence
\* The children used: double (v * 2) and addOne (v + 1); either may throw.
StepKinds == {"double", "addOne"}

StepLists == SeqsUpTo(StepKinds, MaxSteps)

SeqInputs == {0, 3}

SeqConfigs == {c \in ConfigAttributes : c.callbacks = <<>> /\ c.metadata = <<>>
                                        /\ c.recursionLimit <= 1}

Apply(kind, v) == IF kind = "double" THEN v * 2 ELSE v + 1

StepEvent(i, event, v, limit) == [step |-> i, event |-> event, value |-> v, limit |-> limit]

\* The value handed to the next child.
NextInputOriginal(out, x) == x

NextInput(out, x) == out

\* The step index the re-raised error is annotated with.
FailedStepUnknown(i) == 0

FailedStep(i) == i

\* _execute(input, config) up to the start of child 0 (step 1 here).
SeqInvoke(ss, x, cfg) ==
    /\ seqPc = "idle"
    /\ steps' = ss
    /\ seqInput' = x
    /\ seqConfig' = cfg
    /\ IF ss = <<>>
       THEN /\ seqPc' = "returned"
            /\ seqResult' = <<x>>
            /\ UNCHANGED <<stepIdx, carried, seqLog, seqError>>
       ELSE IF LimitReached(cfg.recursionLimit)
       THEN /\ seqPc' = "threw"
            /\ seqError' = [content |-> "RecursionLimitError", step |-> 0]
            /\ UNCHANGED <<stepIdx, carried, seqLog, seqResult>>
       ELSE /\ seqPc' = "running"
            /\ stepIdx' = 1
            /\ carried' = x
            /\ seqLog' = <<StepEvent(1, "start", x, ChildOf(cfg).recursionLimit)>>
            /\ UNCHANGED <<seqResult, seqError>>
    /\ UNCHANGED <<parVars, tokenVars, loggerVars, batchVars, retryVars, timeoutVars, invokeVars, configVars>>

\* The child in flight settles: its output goes to the next child or is the
\* result; its error ends _execute.
StepSettles(ok) ==
    /\ seqPc = "running"
    /\ LET out == Apply(steps[stepIdx], carried)
       IN  IF ~ok
           THEN /\ seqPc' = "threw"
                /\ seqError' = [content |-> "child error", step |-> FailedStep(stepIdx)]
                /\ seqLog' = Append(seqLog, StepEvent(stepIdx, "fail", carried, 0))
                /\ UNCHANGED <<stepIdx, carried, seqResult>>
           ELSE IF stepIdx = Len(steps)
           THEN /\ seqPc' = "returned"
                /\ seqResult' = <<out>>
                /\ seqLog' = Append(seqLog, StepEvent(stepIdx, "end", out, 0))
                /\ UNCHANGED <<stepIdx, carried, seqError>>
           ELSE /\ stepIdx' = stepIdx + 1
                /\ carried' = NextInput(out, seqInput)
                /\ seqLog' = seqLog \o <<StepEvent(stepIdx, "end", out, 0),
                                         StepEvent(stepIdx + 1, "start", carried',
                                                   ChildOf(seqConfig).recursionLimit)>>
                /\ UNCHANGED <<seqPc, seqResult, seqError>>
    /\ UNCHANGED <<parVars, tokenVars, loggerVars, batchVars, retryVars, timeoutVars, invokeVars, configVars,
                   steps, seqInput, seqConfig>>

NextSeq ==
    \/ \E ss \in StepLists, x \in SeqInputs, cfg \in SeqConfigs : SeqInvoke(ss, x, cfg)
    \/ \E ok \in BOOLEAN : StepSettles(ok)

SpecSeq == Init /\ [][NextSeq]_vars

\* ================================================================== Logger
\* this.levels
Levels == [error |-> 0, warn |-> 1, info |-> 2, debug |-> 3]

Severities == DOMAIN Levels

\* The fallback of `this.levels[level] || 2`.
DefaultCurrentLevel == 2

\* Levels a caller gives: the four known ones and one that is not a level.
LevelValues == Severities \cup {"verbose"}

LoggerOptions ==
    ObjectsOver(<<"level", "prefix", "includeTimestamp", "includeLevel">>,
                [level |-> LevelValues,
                 prefix |-> {"[App]"},
                 includeTimestamp |-> BOOLEAN,
                 includeLevel |-> BOOLEAN])

\* this.levels[level] || 2 : the fallback replaces an unknown level and the
\* falsy number 0 alike.
LevelNumber(l) ==
    IF l \in Severities /\ Levels[l] # 0 THEN Levels[l] ELSE DefaultCurrentLevel

\* options.key ?? fallback
Nullish(o, key, fallback) == IF HasKey(o, key) THEN Get(o, key) ELSE fallback

\* options.key || fallback for strings (none of the strings used is empty).
OrString(o, key, fallback) == IF HasKey(o, key) THEN Get(o, key) ELSE fallback

\* constructor(options = {})
LoggerConstructor(o) ==
    /\ loggerPc = "new"
    /\ loggerPc' = "ready"
    /\ level' = OrString(o, "level", "info")
    /\ prefix' = OrString(o, "prefix", "[AI-Agent]")
    /\ includeTimestamp' = Nullish(o, "includeTimestamp", TRUE)
    /\ includeLevel' = Nullish(o, "includeLevel", TRUE)
    /\ currentLevel' = LevelNumber(level')
    /\ UNCHANGED <<parVars, tokenVars, batchVars, retryVars, timeoutVars, invokeVars, configVars,
                   seqVars, lastLog>>

\* setLevel(level)
SetLevel(l) ==
    /\ loggerPc = "ready"
    /\ level' = l
    /\ currentLevel' = LevelNumber(l)
    /\ UNCHANGED <<parVars, tokenVars, batchVars, retryVars, timeoutVars, invokeVars, configVars,
                   seqVars, loggerPc, prefix, includeTimestamp, includeLevel, lastLog>>

UpperCase == [error |-> "ERROR", warn |-> "WARN", info |-> "INFO", debug |-> "DEBUG"]

\* _format(level, message): timestamp, prefix, level tag, message.
Format(sev) ==
    (IF includeTimestamp THEN <<"[time] ">> ELSE <<>>)
        \o <<prefix, " ">>
        \o (IF includeLevel THEN <<"[", UpperCase[sev], "] ">> ELSE <<>>)
        \o <<"message">>

Channel(sev) ==
    CASE sev = "error" -> "console.error"
      [] sev = "warn" -> "console.warn"
      [] OTHER -> "console.log"

\* if (this.currentLevel >= this.levels.<severity>)
Emits(current, sev) == current >= Levels[sev]

\* error(message) | warn(message) | info(message) | debug(message)
Log(sev) ==
    /\ loggerPc = "ready"
    /\ lastLog' = IF Emits(currentLevel, sev)
                  THEN [severity |-> sev, level |-> level, emitted |-> TRUE,
                        channel |-> Channel(sev), output |-> Format(sev)]
                  ELSE [severity |-> sev, level |-> level, emitted |-> FALSE,
                        channel |-> "none", output |-> <<>>]
    /\ UNCHANGED <<parVars, tokenVars, batchVars, retryVars, timeoutVars, invokeVars, configVars,
                   seqVars, loggerPc, level, prefix, includeTimestamp, includeLevel,
                   currentLevel>>

NextLogger ==
    \/ \E o \in LoggerOptions : LoggerConstructor(o)
    \/ \E l \in LevelValues : SetLevel(l)
    \/ \E sev \in Severities : Log(sev)

SpecLogger == Init /\ [][NextLogger]_vars

\* ============================================================ TokenCounter
DefaultEstimationRatio == 4

DefaultContextSize == 4096

DefaultBufferTokens == 512

\* options.tokenizer: left out, or an object whose encode gives one token
\* for every two characters, or one whose encode throws.
TokenizerOptions == {"pairs", "broken"}

TokenCounterOptions ==
    ObjectsOver(<<"tokenizer", "estimationRatio", "contextSize">>,
                [tokenizer |-> TokenizerOptions,
                 estimationRatio |-> {0, 3},
                 contextSize |-> {0, 8}])

\* A text of n characters; only its length and its prefixes matter here.
TextOf(n) == [i \in 1..n |-> i]

Texts == {TextOf(n) : n \in 0..MaxTextLen}

MaxTokensArgs == {0, 1, 2, 5}

\* bufferTokens: left out, or a number.
BufferArgs == {<<>>, <<0>>, <<6>>, <<7>>, <<3584>>}

\* Math.ceil(a / b) for a >= 0 and b > 0.
CeilDiv(a, b) == (a + b - 1) \div b

\* constructor(options = {})
TokenCounterConstructor(o) ==
    /\ tokenPc = "new"
    /\ tokenPc' = "ready"
    /\ tokenizer' = IF HasKey(o, "tokenizer") THEN Get(o, "tokenizer") ELSE "null"
    /\ estimationRatio' = OrDefault(o, "estimationRatio", DefaultEstimationRatio)
    /\ contextSize' = OrDefault(o, "contextSize", DefaultContextSize)
    /\ UNCHANGED <<parVars, batchVars, retryVars, timeoutVars, invokeVars, configVars,
                   seqVars, loggerVars, text, maxTokens, estimate, bufferArg, tokenCheck>>

\* count(text): the tokenizer's count, else the estimate from the length;
\* a tokenizer that throws falls back to the estimate.
Count(t) ==
    IF t = <<>> THEN 0
    ELSE IF tokenizer = "pairs" THEN CeilDiv(Len(t), 2)
    ELSE CeilDiv(Len(t), estimationRatio)

\* Math.max(1, Math.floor(estimate.length * 0.1))
ChunkSizeFloorOnly(n) == n \div 10

ChunkSize(n) == IF n \div 10 < 1 THEN 1 ELSE n \div 10

\* estimate.slice(0, -chunkSize)
SliceOff(t, k) == SubSeq(t, 1, IF Len(t) < k THEN 0 ELSE Len(t) - k)

\* while (this.count(estimate) > maxTokens && estimate.length > 0)
LoopGoesOn(t, m) == Count(t) > m /\ Len(t) > 0

\* truncateToTokens(text, maxTokens) up to the first test of the loop.
TruncateStart(t, m) ==
    /\ tokenPc = "ready"
    /\ text' = t
    /\ maxTokens' = m
    /\ estimate' = t
    /\ tokenPc' = IF t # <<>> /\ LoopGoesOn(t, m) THEN "loop" ELSE "truncated"
    /\ UNCHANGED <<parVars, batchVars, retryVars, timeoutVars, invokeVars, configVars,
                   seqVars, loggerVars, tokenizer, estimationRatio, contextSize,
                   bufferArg, tokenCheck>>

\* One turn of the loop, and the test that follows it.
TruncateStep ==
    /\ tokenPc = "loop"
    /\ estimate' = SliceOff(estimate, ChunkSize(Len(estimate)))
    /\ tokenPc' = IF LoopGoesOn(estimate', maxTokens) THEN "loop" ELSE "truncated"
    /\ UNCHANGED <<parVars, batchVars, retryVars, timeoutVars, invokeVars, configVars,
                   seqVars, loggerVars, tokenizer, estimationRatio, contextSize, text,
                   maxTokens, bufferArg, tokenCheck>>

BufferOf(arg) == IF arg = <<>> THEN DefaultBufferTokens ELSE arg[1]

\* isWithinLimit: remainingTokens > 0
Fits(remaining) == remaining > 0

\* Math.max(0, remainingTokens)
NonNegative(r) == IF r < 0 THEN 0 ELSE r

\* isWithinLimit(text, bufferTokens = 512)
IsWithinLimit(t, arg) ==
    /\ tokenPc = "ready"
    /\ text' = t
    /\ bufferArg' = arg
    /\ LET tokenCount == Count(t)
           remainingTokens == contextSize - tokenCount - BufferOf(arg)
       IN  tokenCheck' = [isWithinLimit |-> Fits(remainingTokens),
                          tokenCount |-> tokenCount,
                          remainingTokens |-> NonNegative(remainingTokens)]
    /\ tokenPc' = "checked"
    /\ UNCHANGED <<parVars, batchVars, retryVars, timeoutVars, invokeVars, configVars,
                   seqVars, loggerVars, tokenizer, estimationRatio, contextSize,
                   maxTokens, estimate>>

NextToken ==
    \/ \E o \in TokenCounterOptions : TokenCounterConstructor(o)
    \/ \E t \in Texts, m \in MaxTokensArgs : TruncateStart(t, m)
    \/ TruncateStep
    \/ \E t \in Texts, arg \in BufferArgs : IsWithinLimit(t, arg)

\* truncateToTokens runs to its end once called: its loop is synchronous.
SpecToken == Init /\ [][NextToken]_vars /\ WF_vars(TruncateStep)

\* ================================================================ claims
NumBranches == Len(runnableNames)

\* Position of a settled child in the time order of settlements.
SettledAt(n) == CHOOSE i \in 1..Len(settled) : settled[i][1] = n

\* The map {n1: result of n1, ..., nk: result of nk} in construction order.
ExpectedResults ==
    [i \in 1..NumBranches |->
        <<runnableNames[i], ChildResult(runnableNames[i], input)>>]

\* The keys and the content of the object at a yielded address.
Snapshot(i) == heap[yielded[i]]

\* C1: when all branches succeed, _call returns the map whose keys are the
\* construction-time names in construction order, each with the result of
\* its own branch on the input, whatever the order of completion; and with
\* every branch fulfilled _call does not throw.
C1_CallResultInConstructionOrder ==
    op = "call" =>
        /\ callPc = "returned" => callResults = ExpectedResults
        /\ (\A n \in Started : Fulfilled(n)) => callPc # "threw"

\* _call has returned two or more results although the first child to
\* complete was not the first in construction order.
C1_Witness ==
    /\ op = "call" /\ callPc = "returned" /\ NumBranches >= 2
    /\ settled[1][1] # runnableNames[1]

\* C2 (as claimed): the rejection _call surfaces is the one that happened
\* first in time.
C2_FirstRejectionInTimeSurfaced ==
    (op = "call" /\ callPc = "threw") =>
        \E n \in Started :
            /\ Rejected(n)
            /\ \A m \in Started : Rejected(m) => SettledAt(n) <= SettledAt(m)
            /\ callError.content = ChildError(n).content

\* C2 (amended): the rejection _call surfaces is the one of the rejecting
\* branch that is first in construction order, surfaced once every branch
\* before it has fulfilled.
C2_FirstRejectionInOrderSurfaced ==
    (op = "call" /\ callPc = "threw") =>
        \E i \in 1..NumBranches :
            /\ Rejected(runnableNames[i])
            /\ \A j \in 1..(i - 1) : Fulfilled(runnableNames[j])
            /\ callError.content = ChildError(runnableNames[i]).content

\* _call threw the error of a branch although another branch had rejected
\* earlier in time.
C2_Witness ==
    /\ op = "call" /\ callPc = "threw"
    /\ \E n \in Started :
           /\ Rejected(n)
           /\ callError.content # ChildError(n).content
           /\ \A m \in Started : Rejected(m) => SettledAt(n) <= SettledAt(m)

\* C3 (as claimed): the error _call surfaces has the failing child's
\* content and is annotated with the name of the failing branch.
C3_ErrorAnnotatedWithBranch ==
    (op = "call" /\ callPc = "threw") =>
        \E n \in Started :
            /\ Rejected(n)
            /\ callError.content = ChildError(n).content
            /\ callError.node = n

\* C3 (amended): the error _call surfaces is the failing child's error
\* itself, unchanged and without any annotation, and _call never returns a
\* result when a branch it awaited has rejected.
C3_ErrorRethrownUnchanged ==
    op = "call" =>
        /\ callPc = "threw" =>
              \E n \in Started : Rejected(n) /\ callError = ChildError(n)
        /\ callPc = "returned" => \A n \in Started : Fulfilled(n)

\* _call threw after an earlier branch had already delivered its result.
C3_Witness ==
    op = "call" /\ callPc = "threw" /\ Len(callResults) >= 1

\* C4: a stream over N branches never yields more than N times; when it
\* ends it has yielded exactly N snapshots and the last one has all N keys;
\* it does not throw while no branch has rejected, and it is never left
\* waiting on a race none of whose promises is pending.
C4_StreamYieldsExactlyN ==
    op = "stream" =>
        /\ Len(yielded) <= NumBranches
        /\ genPc = "done" =>
              /\ Len(yielded) = NumBranches
              /\ NumBranches > 0 =>
                    KeySet(Snapshot(NumBranches)) = SeqSet(runnableNames)
        /\ (\A n \in Started : ~Rejected(n)) => genPc # "threw"
        /\ (genPc = "racing" /\ raceWinner = None) =>
              \E n \in SeqSet(promises) : Pending(n)

\* A stream has ended although two branches had settled before the first
\* snapshot was taken.
C4_Witness ==
    /\ op = "stream" /\ genPc = "done" /\ NumBranches >= 2
    /\ Len(Snapshot(1)) >= 2

\* C5: every key, with its value, of a snapshot is in every later snapshot
\* of the same stream.
C5_SnapshotsMonotonic ==
    op = "stream" =>
        \A i \in 1..Len(yielded) : \A j \in i..Len(yielded) :
            \A k \in 1..Len(Snapshot(i)) :
                \E l \in 1..Len(Snapshot(j)) : Snapshot(j)[l] = Snapshot(i)[k]

\* Two snapshots were yielded, the later one strictly larger.
C5_Witness ==
    /\ op = "stream" /\ Len(yielded) >= 2
    /\ Len(Snapshot(1)) >= 1
    /\ Len(Snapshot(Len(yielded))) > Len(Snapshot(1))

\* C6: every yielded object is a new one, different from the accumulating
\* results object and from every other yielded object, and no step changes
\* the content of an object that was already yielded.
C6_YieldedSnapshotsFresh ==
    /\ [](op = "stream" =>
            /\ \A i \in 1..Len(yielded) : yielded[i] # resultsRef
            /\ \A i, j \in 1..Len(yielded) : i # j => yielded[i] # yielded[j])
    /\ [][op = "stream" =>
            \A i \in 1..Len(yielded) : heap'[yielded[i]] = heap[yielded[i]]]_vars

\* A branch has settled after a snapshot was yielded: the results object
\* has a key the snapshot does not have.
C6_Witness ==
    /\ op = "stream" /\ Len(yielded) >= 1
    /\ KeySet(heap[resultsRef]) # KeySet(Snapshot(1))

IsMalformed(o) ==
    \/ o.type \in NonMappingTypes
    \/ \E i \in 1..Len(o.props) : "invoke" \notin Capabilities(o.props[i][2])

C8_MalformedRaisesConfigurationError ==
    (ctor # "none" /\ IsMalformed(options)) =>
        /\ ctor = "threw"
        /\ IsConfigurationError(ctorError)
        /\ op = "none" /\ calls = <<>>

\* C9 (as claimed): every value of a constructed group has the whole
\* capability set {invoke, stream, batch, pipe}.
C9_ValuesHaveAllCapabilities ==
    ctor = "ok" =>
        \A i \in 1..Len(runnables) : Capabilities(runnables[i][2]) = TaskCapabilities

\* C9 (amended): every value of a constructed group has an invoke method;
\* the constructor checks nothing else, so a mapping whose values all have
\* invoke is constructed even when a value lacks stream, batch or pipe.
C9_ValuesHaveInvoke ==
    /\ ctor = "ok" =>
          \A i \in 1..Len(runnables) : "invoke" \in Capabilities(runnables[i][2])
    /\ (ctor # "none" /\ options.type = "object"
          /\ \A i \in 1..Len(options.props) :
                "invoke" \in Capabilities(options.props[i][2])) => ctor = "ok"

\* A group was constructed with a value that has invoke only.
C9_Witness ==
    ctor = "ok" /\ \E i \in 1..Len(runnables) : runnables[i][2] = "duck"

\* C10 (as claimed): every branch is given a config object of its own,
\* different from the parent's and from its siblings', and a tag a branch
\* writes into its config is seen by no other branch and not by the caller.
C10_BranchConfigsIsolated ==
    /\ \A i \in 1..Len(calls) : calls[i].config # CallConfig
    /\ \A i, j \in 1..Len(calls) : i # j => calls[i].config # calls[j].config
    /\ \A t \in cfgMeta : \A i \in 1..Len(calls) :
          calls[i].config = t[1] => calls[i].name = t[2]

\* C10 (amended): every branch is given the very config object that _call
\* or _stream received, so a tag a branch writes into it is written into
\* the config of the parent and of every sibling.
C10_BranchConfigsShared ==
    /\ \A i \in 1..Len(calls) : calls[i].config = CallConfig
    /\ \A t \in cfgMeta : \A i \in 1..Len(calls) : calls[i].config = t[1]

\* Two branches were started and one of them tagged its config.
C10_Witness ==
    Len(calls) >= 2 /\ cfgMeta # {}

\* The result map of one _call on the input x.
ExpectedFor(x) ==
    [i \in 1..NumBranches |-> <<runnableNames[i], ChildResult(runnableNames[i], x)>>]

\* C11: batch starts the children of every input, each with its own input,
\* before anything settles; when it fulfils, the list has one result map
\* per input, in input order, whatever the order of completion; once the
\* work for an input has failed the batch is rejected and no list is
\* returned, and a batch that fulfilled had no failing child.
C11_BatchJoinsInInputOrder ==
    op = "batch" =>
        /\ bStarted =
              [k \in 1..(Len(bInputs) * NumBranches) |->
                  <<((k - 1) \div NumBranches) + 1,
                    runnableNames[((k - 1) % NumBranches) + 1],
                    bInputs[((k - 1) \div NumBranches) + 1]>>]
        /\ bPc = "fulfilled" =>
              /\ Len(bResult) = Len(bInputs)
              /\ \A i \in 1..Len(bInputs) : bResult[i] = ExpectedFor(bInputs[i])
              /\ bFail = {}
        /\ (\E i \in 1..Len(bInputs) : bCall[i] = "threw") =>
              bPc = "rejected" /\ bResult = <<>>

\* A batch of two different inputs fulfilled although the _call of the
\* second input returned first.
C11_Witness ==
    /\ op = "batch" /\ bPc = "fulfilled" /\ Len(bInputs) >= 2
    /\ bInputs[1] # bInputs[2]
    /\ NumBranches >= 1
    /\ bDone[1] # 1

\* C12 (as claimed): once the constructor has returned, the children are
\* the validated ones it was given and never change, and _call, _stream,
\* getRunnames and hasRunnable work on the same set of names.
C12_ChildrenFixedAtConstruction ==
    ctor = "ok" =>
        /\ runnables = (IF options.type = "object" THEN options.props ELSE <<>>)
        /\ \A n \in Names : HasRunnable(n) <=> n \in SeqSet(GetRunnames)
        /\ \A i \in 1..Len(runnables) : ~NotRunnable(runnables[i][2])
        /\ (op \in {"call", "stream"} /\ callPc # "threw" /\ genPc # "threw") =>
              Started = SeqSet(GetRunnames)

\* C20: _call invokes every child exactly once, in construction order and
\* with the input it was given, and has done so before it awaits anything
\* (every child is started in every state of the operation); and once every
\* child has settled _call can complete without waiting for anything else.
C20_CallFansOutBeforeWaiting ==
    op = "call" =>
        /\ Len(calls) = NumBranches
        /\ \A i \in 1..NumBranches :
              calls[i].name = runnableNames[i] /\ calls[i].input = input
        /\ (callPc = "awaiting" /\ \A n \in Started : n \in SettledNames) =>
              ENABLED CallAwait

\* _call is still awaiting its first child while the last child, started
\* with the same input, has already settled.
C20_Witness ==
    /\ op = "call" /\ callPc = "awaiting" /\ callIdx = 1 /\ NumBranches >= 2
    /\ runnableNames[NumBranches] \in SettledNames
    /\ Pending(runnableNames[1])

\* C18 (as claimed): with options.maxRetries = n, for every n >= 0, fn is
\* called at most n + 1 times, one call at a time, and execute returns the
\* value of the first successful call, the last call made.
C18_AtMostNPlusOneCalls ==
    (retryPc # "new" /\ HasKey(retryOptions, "maxRetries")) =>
        /\ fnCalls <= Get(retryOptions, "maxRetries") + 1
        /\ fnInFlight <= 1
        /\ retryPc = "returned" => retryResult = <<"value", fnCalls>>

TraceIdx(what, events) ==
    {i \in 1..Len(trace) : trace[i].what = what /\ trace[i].event \in events}

\* The handlers whose hook a notify call of `event` has called, in call order.
HookedHandlers(event) ==
    LET calls_ == SelectSeq(trace, LAMBDA t : t.what = "hook" /\ t.event = event)
    IN  [i \in 1..Len(calls_) |-> calls_[i].handler]

\* The registered handlers that have the hook, in registration order.
HandlersWith(event) ==
    SelectSeq([i \in 1..Len(handlers) |-> i], LAMBDA i : HasHook(handlers[i], event))

IsPrefix(p, q) == Len(p) <= Len(q) /\ SubSeq(q, 1, Len(p)) = p

\* C13: every invoke runs the work exactly once, after the onStart
\* notification and before exactly one of onEnd (with the result, on success)
\* and onError (on failure); on failure the work's error is re-thrown and
\* onEnd is never notified.
C13_InvokeLifecycleOrder ==
    LET work == TraceIdx("work", {"none"})
        after == TraceIdx("notify", {"onEnd", "onError"})
    IN  /\ Cardinality(work) = IF invokePc \in {"idle", "onStart"} THEN 0 ELSE 1
        /\ Cardinality(TraceIdx("notify", {"onStart"})) = IF invokePc = "idle" THEN 0 ELSE 1
        /\ Cardinality(after) =
               IF invokePc \in {"onEnd", "onError", "returned", "threw"} THEN 1 ELSE 0
        /\ \A i \in 1..Len(trace) :
               /\ trace[i].event = "onStart" => \A w \in work : i < w
               /\ trace[i].event \in {"onEnd", "onError"} => \E w \in work : w < i
               /\ trace[i].event = "onEnd" => workWill = "ok" /\ trace[i].payload = WorkResult
               /\ trace[i].event = "onError" => workWill = "fail" /\ trace[i].payload = WorkError
        /\ invokePc = "returned" => workWill = "ok" /\ invokeResult = WorkResult
        /\ invokePc = "threw" => workWill = "fail" /\ invokeError = WorkError

\* A failed work was reported to an onError hook and re-thrown.
C13_Witness ==
    /\ invokePc = "threw"
    /\ TraceIdx("hook", {"onError"}) # {}
    /\ TraceIdx("hook", {"onStart"}) # {}

\* C14: an exception of a lifecycle handler never leaves the notify call or
\* invoke, never keeps the later handlers from being called for the same
\* event, never keeps the work from running; hooks are called in
\* registration order, each one settled before the next is called.
C14_HandlerFailuresIsolated ==
    /\ hooksInFlight <= 1
    /\ \A event \in {"onStart", "onEnd", "onError"} :
           /\ IsPrefix(HookedHandlers(event), HandlersWith(event))
           /\ (TraceIdx("notify", {event}) # {} /\ invokePc # event) =>
                  HookedHandlers(event) = HandlersWith(event)
    /\ invokePc \in {"returned", "threw"} =>
           /\ TraceIdx("work", {"none"}) # {}
           /\ invokePc = (IF workWill = "ok" THEN "returned" ELSE "threw")
           /\ invokeError \in {"none", WorkError}
           /\ Len(reported) =
                  Cardinality({i \in TraceIdx("hook", {"onStart", "onEnd", "onError"}) :
                                   HookThrows(handlers[trace[i].handler], trace[i].event)})

\* The first handler threw in onStart and in onEnd, the second one was still
\* called for both, and invoke returned the result.
C14_Witness ==
    /\ invokePc = "returned"
    /\ handlers = <<"faulty", "metrics">>
    /\ reported = << <<"onStart", 1>>, <<"onEnd", 1>> >>
    /\ HookedHandlers("onEnd") = <<1, 2>>

\* Number of child() calls between the first config and configs[a].
RECURSIVE Depth(_)
Depth(a) == IF parentOf[a] = 0 THEN 0 ELSE 1 + Depth(parentOf[a])

\* C15: from a config of recursionLimit L, child() succeeds along a chain
\* exactly L times, each time returning a new config with the limit one less
\* and the receiver left as it was; child() on a config whose limit is zero,
\* and only there, raises RecursionLimitError.
C15_ChildDecrementsUntilZero ==
    /\ \A a \in 1..Len(configs) :
           /\ configs[a].recursionLimit >= 0
           /\ configs[a] = [created EXCEPT !.recursionLimit = @ - Depth(a)]
           /\ parentOf[a] < a
           /\ Depth(a) <= created.recursionLimit
    /\ lastChild.outcome = "ok" =>
           /\ lastChild.result = Len(configs)
           /\ parentOf[lastChild.result] = lastChild.receiver
           /\ configs[lastChild.receiver].recursionLimit > 0
    /\ lastChild.outcome = "RecursionLimitError" =>
           /\ configs[lastChild.receiver].recursionLimit = 0
           /\ Depth(lastChild.receiver) = created.recursionLimit

\* A chain of L = 2 successful child() calls, then the call that fails.
C15_Witness ==
    /\ Len(configs) = 3
    /\ created.recursionLimit = 2
    /\ parentOf = <<0, 1, 2>>
    /\ lastChild = [receiver |-> 3, outcome |-> "RecursionLimitError", result |-> 0]

LogIdx(event, i) == {k \in 1..Len(seqLog) : seqLog[k].event = event /\ seqLog[k].step = i}

\* The children applied one after the other, from the left.
RECURSIVE Pipeline(_, _)
Pipeline(ss, v) == IF ss = <<>> THEN v ELSE Pipeline(Tail(ss), Apply(Head(ss), v))

\* C16: in a Sequence child i+1 is started only after child i has completed,
\* child 0 receives the original input, child i+1 exactly the output of
\* child i, and the result is the output of the last child.
C16_SequenceChainsInOrder ==
    /\ \A i \in 1..Len(steps) :
           /\ Cardinality(LogIdx("start", i)) <= 1
           /\ \A k \in LogIdx("start", i) :
                  IF i = 1 THEN seqLog[k].value = seqInput
                  ELSE \E e \in LogIdx("end", i - 1) :
                           e < k /\ seqLog[k].value = seqLog[e].value
           /\ \A e \in LogIdx("end", i) :
                  \E k \in LogIdx("start", i) :
                      k < e /\ seqLog[e].value = Apply(steps[i], seqLog[k].value)
    /\ (seqPc = "returned" /\ steps # <<>>) =>
           /\ \E e \in LogIdx("end", Len(steps)) : seqResult = <<seqLog[e].value>>
           /\ seqResult = <<Pipeline(steps, seqInput)>>

\* Sequence([double, addOne]).invoke(3) returned 7.
C16_Witness ==
    /\ steps = <<"double", "addOne">>
    /\ seqInput = 3
    /\ seqPc = "returned"
    /\ seqResult = <<7>>

\* C17: when child i of a Sequence throws, no child after i is invoked, the
\* Sequence returns no result, and the error it throws names step i.
C17_SequenceFailsFast ==
    /\ \A i \in 1..Len(steps) :
           LogIdx("fail", i) # {} =>
               /\ \A j \in (i + 1)..Len(steps) : LogIdx("start", j) = {}
               /\ seqLog[Len(seqLog)].event = "fail"
               /\ seqPc = "threw"
               /\ seqResult = <<>>
               /\ seqError = [content |-> "child error", step |-> i]
    /\ seqPc = "threw" => seqResult = <<>>
    /\ seqPc = "returned" => seqError = NoSeqError

\* The second of three children threw.
C17_Witness ==
    /\ Len(steps) = 3
    /\ seqPc = "threw"
    /\ seqError = [content |-> "child error", step |-> 2]
    /\ LogIdx("end", 1) # {}

\* What holds in every state of a stream for C21.
StreamRejectionState ==
    op = "stream" =>
        /\ \A i \in 1..Len(yielded) : \A k \in KeySet(Snapshot(i)) :
               Fulfilled(k) /\ Get(Snapshot(i), k) = ChildResult(k, input)
        /\ (\E n \in Started : Rejected(n)) =>
               /\ genPc # "done"
               /\ Len(yielded) < NumBranches
               /\ genPc = "racing" => raceWinner # None
        /\ genPc = "threw" =>
               \E n \in Started : Rejected(n) /\ streamError = ChildError(n)

\* C21: a branch that rejects during stream aborts the stream: the rejection
\* is thrown to the consumer, nothing is yielded after the throw, fewer than
\* N snapshots are yielded, and no snapshot holds a marker for the rejected
\* branch.
C21_StreamAbortsOnRejection ==
    /\ []StreamRejectionState
    /\ [][genPc = "threw" => (yielded' = yielded /\ genPc' = "threw")]_vars

\* The stream threw a rejection after it had yielded a snapshot, the
\* rejection being older than the value the snapshot was yielded for.
C21_Witness ==
    /\ op = "stream" /\ genPc = "threw" /\ Len(yielded) >= 1
    /\ \E n \in Started :
           /\ streamError = ChildError(n)
           /\ SettledAt(n) < SettledAt(causes[Len(causes)])

\* The error of the last call of fn, "ok" when it succeeded, "none" before.
LastOutcome == IF outcomes = <<>> THEN "none" ELSE outcomes[Len(outcomes)]

\* C22: when every attempt fails with a retryable error, execute makes
\* exactly maxRetries + 1 attempts with one sleep between consecutive
\* attempts and none after the last, then throws 'Failed after
\* <maxRetries + 1> attempts' with the message of the last attempt's error.
C22_ExhaustsThenFails ==
    /\ retryPc \notin {"new", "ready"} =>
           /\ fnCalls <= maxRetries + 1
           /\ Len(sleeps) = IF retryPc = "sleeping" THEN fnCalls ELSE fnCalls - 1
    /\ (/\ retryPc \in {"returned", "threw"}
        /\ \A i \in 1..Len(outcomes) :
               outcomes[i] # "ok" /\ ShouldRetry(shouldRetry, outcomes[i])) =>
           /\ retryPc = "threw"
           /\ fnCalls = maxRetries + 1
           /\ Len(outcomes) = maxRetries + 1
           /\ Len(sleeps) = maxRetries
           /\ retryError = [type |-> "failed after", attempts |-> maxRetries + 1,
                            message |-> LastOutcome]

\* Three failed attempts, two sleeps, and the last error in the message.
C22_Witness ==
    /\ retryPc = "threw"
    /\ maxRetries = 2
    /\ outcomes = <<"transient", "transient", "fatal">>
    /\ Len(sleeps) = 2
    /\ retryError.message = "fatal"

\* C23: when an attempt fails with an error shouldRetry refuses, execute
\* re-throws that very error at once, without a sleep and without another
\* call of fn, however many retries are left.
C23_NonRetryableRethrownAtOnce ==
    /\ (LastOutcome \notin {"none", "ok"} /\ ~ShouldRetry(shouldRetry, LastOutcome)) =>
           /\ retryPc = "threw"
           /\ retryError = [type |-> "original", attempts |-> 0, message |-> LastOutcome]
           /\ fnCalls = Len(outcomes)
           /\ fnInFlight = 0
           /\ Len(sleeps) = Len(outcomes) - 1
    /\ retryError.type = "original" =>
           LastOutcome \notin {"none", "ok"} /\ ~ShouldRetry(shouldRetry, LastOutcome)

\* The second attempt failed with an error that is not retried, with two
\* retries left.
C23_Witness ==
    /\ retryPc = "threw"
    /\ shouldRetry = "transientOnly"
    /\ maxRetries = 3
    /\ outcomes = <<"transient", "fatal">>
    /\ retryError.type = "original"

RECURSIVE Pow(_, _)
Pow(b, k) == IF k = 0 THEN 1 ELSE b * Pow(b, k - 1)

Min(a, b) == IF a < b THEN a ELSE b

\* C24 (as claimed): every delay slept is at most maxDelay, and the delay
\* before the (k+1)-th retry is min(initialDelay * backoffMultiplier^k,
\* maxDelay).
C24_DelaysCappedExponential ==
    \A k \in 1..Len(sleeps) :
        /\ sleeps[k] <= maxDelay
        /\ sleeps[k] = Min(initialDelay * Pow(backoffMultiplier, k - 1), maxDelay)

\* C25 (as claimed): with retry.execute around timeout.execute, at most one
\* call of the underlying operation is in flight at any time.
C25_OneOperationInFlight == OperationsInFlight <= 1

\* C26 (as claimed): a Logger at level L, set by the constructor or by
\* setLevel, emits a message of severity S exactly when S is at most L in
\* the order error < warn < info < debug.
C26_EmitsUpToLevel ==
    (lastLog.severity # "none" /\ lastLog.level \in Severities) =>
        (lastLog.emitted <=> Levels[lastLog.severity] <= Levels[lastLog.level])

\* What holds of the result of truncateToTokens.
TruncatedResult ==
    tokenPc = "truncated" =>
        /\ IsPrefix(estimate, text)
        /\ Count(estimate) <= maxTokens \/ estimate = <<>>
        /\ Count(text) <= maxTokens => estimate = text

\* C27: truncateToTokens(text, maxTokens) always terminates and returns a
\* prefix p of text with count(p) <= maxTokens or p empty; a text with
\* count(text) <= maxTokens is returned unchanged.
C27_TruncateTerminatesWithPrefix ==
    /\ []TruncatedResult
    /\ (tokenPc = "loop") ~> (tokenPc = "truncated")

\* A text of 21 characters was cut by chunks of two and of one character
\* down to a proper, non-empty prefix.
C27_Witness ==
    /\ tokenPc = "truncated"
    /\ Len(text) = 21
    /\ estimate # <<>>
    /\ Len(estimate) < 15

\* C28 (as claimed): isWithinLimit is true exactly when count(text) +
\* buffer <= contextSize, and remainingTokens is
\* max(0, contextSize - count(text) - buffer).
C28_WithinLimitIffFits ==
    tokenPc = "checked" =>
        /\ tokenCheck.isWithinLimit <=>
               Count(text) + BufferOf(bufferArg) <= contextSize
        /\ tokenCheck.tokenCount = Count(text)
        /\ tokenCheck.remainingTokens >= 0
        /\ tokenCheck.remainingTokens =
               (IF contextSize - Count(text) - BufferOf(bufferArg) < 0 THEN 0
                ELSE contextSize - Count(text) - BufferOf(bufferArg))

====
